---- MODULE Spec2Model ----
(***************************************************************************)
(* The palette editor of src/App.tsx as a state machine.                   *)
(*                                                                         *)
(* State: the React state of App (palette, adjustments, selectedColor,     *)
(* showPicker) and history variables recording what the last handler did.  *)
(* Operations: the three slider onChange handlers (which call              *)
(* adjustPalette), the swatch onClick, handleColorChange, handleNameChange *)
(* and the render-time getShades.                                          *)
(*                                                                         *)
(* Numbers.  The program computes in IEEE doubles; the model computes the  *)
(* same formulas in exact rational arithmetic.  A rational is a pair       *)
(* <<n, d>> with d > 0.  A hue is a rational number of degrees, a          *)
(* saturation or lightness a rational in [0, 1].  The TinyColor            *)
(* constructor hands saturation and lightness to its parser as percentage  *)
(* strings and the parser keeps hundredths of a percent                    *)
(* (parseInt(n * 100) / 100): that truncation is modelled (Perc4), and so  *)
(* is every Math.round.  Channel values are wider than TLC's 32-bit        *)
(* integers, so ChannelRound carries them in base-10000 digits.            *)
(*                                                                         *)
(* Not modelled.  (1) The rounding noise of the doubles themselves (about  *)
(* 1e-16): where a value lies exactly on a rounding or truncation boundary *)
(* the program may land on the other side of it, which moves a truncated   *)
(* percentage by 0.01 or a rounded figure of a string by 1.  (2) The       *)
(* TinyColor constructor's rounding of a channel value below 1 to 0 or 1:  *)
(* it changes no hex digit, but the HSL read back from such a near-black   *)
(* colour, and with it the hsl, hsv and cmyk strings and the generated     *)
(* name, may differ from the ones computed here.                           *)
(***************************************************************************)
EXTENDS Integers, Sequences, FiniteSets, TLC

(***************************************************************************)
(* Program constants                                                       *)
(***************************************************************************)
PaletteSize == 5

SpinStep == 30

ShadeCount == 5

NULL == 0

(***************************************************************************)
(* Rational helpers                                                        *)
(***************************************************************************)
Min2(a, b) == IF a < b THEN a ELSE b

Max2(a, b) == IF a > b THEN a ELSE b

Max3(a, b, c) == Max2(a, Max2(b, c))

Min3(a, b, c) == Min2(a, Min2(b, c))

\* Math.round of the non-negative rational n/d: floor(n/d + 1/2).
RoundQ(n, d) == (2 * n + d) \div (2 * d)

\* JavaScript's % on a rational number of degrees: the result has the sign
\* of the dividend.
JsRem(h, m) ==
  IF h[1] >= 0 THEN <<h[1] % (m * h[2]), h[2]>>
  ELSE <<0 - ((0 - h[1]) % (m * h[2])), h[2]>>

\* Math.max(0, Math.min(1, q)) on a rational.
Clamp01(q) ==
  IF q[1] < 0 THEN <<0, q[2]>>
  ELSE IF q[1] > q[2] THEN <<q[2], q[2]>>
  ELSE q

\* The parser's reading of a saturation or lightness in [0, 1] handed over as
\* a percentage: hundredths of a percent, truncated, as an integer 0..10000
\* (floor(10000 * n / d), in two steps of 100 to stay within 32 bits).
Perc4(q) ==
  LET a == (100 * q[1]) \div q[2]
      r == (100 * q[1]) % q[2]
  IN  Min2(10000, Max2(0, 100 * a + ((100 * r) \div q[2])))

(***************************************************************************)
(* TinyColor.  A colour object is a record of what the program reads from  *)
(* it: the rounded channels r, g, b (toHexString, toRgbString), the HSL    *)
(* triple toHsl() returns (h, s, l), isValid (ok), and in x what           *)
(* toHsvString and toCmykString compute from when the channels are no      *)
(* whole numbers (a colour made from HSL): <<w, q8, fr, fg, fb, fd>>, the  *)
(* half chroma w/10^8, the largest channel q8/10^8 and the three channels' *)
(* positions fr/fd, fg/fd, fb/fd between the smallest and the largest.     *)
(***************************************************************************)

\* rgbToHsl on integer channels: the hue in degrees.
HueOfRgb(r, g, b) ==
  LET mx == Max3(r, g, b)
      mn == Min3(r, g, b)
      d  == mx - mn
  IN  IF d = 0 THEN <<0, 1>>
      ELSE IF mx = r THEN <<60 * ((g - b) + (IF g < b THEN 6 * d ELSE 0)), d>>
      ELSE IF mx = g THEN <<60 * ((b - r) + 2 * d), d>>
      ELSE <<60 * ((r - g) + 4 * d), d>>

\* rgbToHsl on integer channels: saturation and lightness.
SatOfRgb(r, g, b) ==
  LET mx == Max3(r, g, b)
      mn == Min3(r, g, b)
  IN  IF mx = mn THEN <<0, 1>>
      ELSE IF mx + mn > 255 THEN <<mx - mn, 510 - mx - mn>>
      ELSE <<mx - mn, mx + mn>>

LightOfRgb(r, g, b) == <<Max3(r, g, b) + Min3(r, g, b), 510>>

\* new TinyColor("#rrggbb"): integer channels.
ColorOfRgb(r, g, b) ==
  [ok |-> TRUE, r |-> r, g |-> g, b |-> b,
   h |-> HueOfRgb(r, g, b), s |-> SatOfRgb(r, g, b), l |-> LightOfRgb(r, g, b),
   x |-> <<>>]

\* bound01(h, 360): a hue within 1e-6 of 360 is read as a full turn, any
\* other is wrapped into [0, 360), a negative one by adding 360.
WrapHue(h) ==
  IF h[1] = 360 * h[2] THEN h
  ELSE IF h[1] < 0 THEN LET w == JsRem(h, 360) IN <<w[1] + 360 * h[2], h[2]>>
  ELSE JsRem(h, 360)

\* hue2rgb's position between p (0) and q (1) for an angle t in degrees, as a
\* numerator over 60 * t[2].
HueFrac(t) ==
  LET d == t[2]
      u == IF t[1] < 0 THEN t[1] + 360 * d
           ELSE IF t[1] > 360 * d THEN t[1] - 360 * d ELSE t[1]
  IN  IF u < 60 * d THEN u
      ELSE IF u < 180 * d THEN 60 * d
      ELSE IF u < 240 * d THEN 240 * d - u
      ELSE 0

\* Math.round(255 * (l + c * (f - 1/2))), the channel hslToRgb gives for
\* lightness l4/10000, half chroma w/10^8 and position fn/fd.  The numerator
\* 255*fd*l4*10^4 + fd*5*10^7 + 255*w*(2fn - fd) is kept as d2*10^8 + d1*10^4
\* + d0 and divided by 10^8 * fd.
ChannelRound(l4, w, fn, fd) ==
  LET v  == 255 * (2 * fn - fd)
      u  == 255 * fd
      v1 == v \div 10000
      v0 == v % 10000
      w1 == w \div 10000
      w0 == w % 10000
      u1 == u \div 10000
      u0 == u % 10000
      d2 == u1 * l4 + w1 * v1
      d1 == u0 * l4 + fd * 5000 + w1 * v0 + w0 * v1
      d0 == w0 * v0
      m  == d2 + ((d1 + (d0 \div 10000)) \div 10000)
  IN  Min2(255, Max2(0, m \div fd))

\* Math.round(200 * (x + rem/fd) / q) for 0 <= x + rem/fd <= q, by long
\* division (200 = 10 * 10 * 2) so that no product leaves 32 bits.
Round200(x, rem, fd, q) ==
  LET a1 == 10 * x + ((10 * rem) \div fd)
      r1 == (10 * rem) % fd
      x1 == a1 % q
      a2 == 10 * x1 + ((10 * r1) \div fd)
      r2 == (10 * r1) % fd
      x2 == a2 % q
  IN  20 * (a1 \div q) + 2 * (a2 \div q)
        + ((4 * x2 + ((4 * r2) \div fd) + q) \div (2 * q))

\* Math.round(100 * (max - channel) / max) of rgbToCmyk for a channel at
\* position fn/fd: (max - channel) / max = 2w(fd - fn) / (fd * q8).
CmykPart(w, q8, fn, fd) ==
  LET g == fd - fn
      x == (w \div fd) * g + (((w % fd) * g) \div fd)
      rem == ((w % fd) * g) % fd
  IN  Round200(x, rem, fd, q8)

\* new TinyColor({h, s, l}): h a rational number of degrees, s and l
\* rationals in [0, 1].
ColorOfHsl(h, s, l) ==
  LET hw == WrapHue(h)
      s4 == Perc4(s)
      l4 == Perc4(l)
      l2 == IF l4 < 5000 THEN l4 ELSE 10000 - l4
      w  == s4 * l2
      q8 == l4 * 10000 + w
      fd == 60 * hw[2]
      fr == HueFrac(<<hw[1] + 120 * hw[2], hw[2]>>)
      fg == HueFrac(hw)
      fb == HueFrac(<<hw[1] - 120 * hw[2], hw[2]>>)
      grey == (w = 0)
      hh == IF grey THEN <<0, 1>>
            ELSE IF hw[1] = 360 * hw[2] THEN <<0, hw[2]>> ELSE hw
  IN  [ok |-> TRUE,
       r |-> ChannelRound(l4, w, fr, fd),
       g |-> ChannelRound(l4, w, fg, fd),
       b |-> ChannelRound(l4, w, fb, fd),
       h |-> hh,
       s |-> IF grey THEN <<0, 1>> ELSE <<s4, 10000>>,
       l |-> <<l4, 10000>>,
       x |-> <<w, q8, fr, fg, fb, fd>>]

\* new TinyColor(string) for a string that does not parse: isValid is false
\* and the channels are 0.
InvalidColor == [ColorOfRgb(0, 0, 0) EXCEPT !.ok = FALSE]

\* A colour string is a sequence of characters; a hexadecimal digit is the
\* character 0..15 and NonHexChar any other.  The parser accepts six digits
\* or three (each doubled).
NonHexChar == 16

ColorOfString(str) ==
  IF \E k \in 1..Len(str) : str[k] \notin 0..15 THEN InvalidColor
  ELSE IF Len(str) = 6
    THEN ColorOfRgb(16 * str[1] + str[2], 16 * str[3] + str[4],
                    16 * str[5] + str[6])
  ELSE IF Len(str) = 3
    THEN ColorOfRgb(17 * str[1], 17 * str[2], 17 * str[3])
  ELSE InvalidColor

toHexString(c) ==
  <<c.r \div 16, c.r % 16, c.g \div 16, c.g % 16, c.b \div 16, c.b % 16>>

toRgbString(c) == <<c.r, c.g, c.b>>

toHslString(c) ==
  <<RoundQ(c.h[1], c.h[2]), RoundQ(100 * c.s[1], c.s[2]),
    RoundQ(100 * c.l[1], c.l[2])>>

\* rgbToHsv: v is the largest channel, s the chroma over it.
toHsvString(c) ==
  LET mx == Max3(c.r, c.g, c.b)
      mn == Min3(c.r, c.g, c.b)
  IN  IF c.x = <<>>
      THEN <<RoundQ(c.h[1], c.h[2]),
             IF mx = 0 THEN 0 ELSE RoundQ(100 * (mx - mn), mx),
             RoundQ(100 * mx, 255)>>
      ELSE <<RoundQ(c.h[1], c.h[2]),
             IF c.x[2] = 0 THEN 0 ELSE Round200(c.x[1], 0, 1, c.x[2]),
             (c.x[2] + 500000) \div 1000000>>

\* rgbToCmyk: k is 1 less the largest channel, c, m and y the channels'
\* distances below the largest over it.
toCmykString(c) ==
  LET mx == Max3(c.r, c.g, c.b)
  IN  IF c.x = <<>>
      THEN IF mx = 0 THEN <<0, 0, 0, 100>>
           ELSE <<RoundQ(100 * (mx - c.r), mx), RoundQ(100 * (mx - c.g), mx),
                  RoundQ(100 * (mx - c.b), mx), RoundQ(100 * (255 - mx), 255)>>
      ELSE IF c.x[2] = 0 THEN <<0, 0, 0, 100>>
           ELSE <<CmykPart(c.x[1], c.x[2], c.x[3], c.x[6]),
                  CmykPart(c.x[1], c.x[2], c.x[4], c.x[6]),
                  CmykPart(c.x[1], c.x[2], c.x[5], c.x[6]),
                  (100000000 - c.x[2] + 500000) \div 1000000>>

toHsl(c) == [h |-> c.h, s |-> c.s, l |-> c.l]

\* new TinyColor("hsl(h, s%, l%)"), the string toHslString writes.
ColorOfHslString(str) == ColorOfHsl(<<str[1], 1>>, <<str[2], 100>>, <<str[3], 100>>)

\* clone(): new TinyColor(this.toString()); toString writes the format the
\* colour was made from, a hex string for fromHex and an hsl string otherwise.
clone(c, fromHex) ==
  IF fromHex THEN ColorOfString(toHexString(c))
  ELSE ColorOfHslString(toHslString(c))

\* spin(amount): the hue moved by amount degrees and wrapped.
spin(c, amount) ==
  LET hsl == toHsl(c)
      hue == JsRem(<<hsl.h[1] + amount * hsl.h[2], hsl.h[2]>>, 360)
      h   == IF hue[1] < 0 THEN <<360 * hue[2] + hue[1], hue[2]>> ELSE hue
  IN  ColorOfHsl(h, hsl.s, hsl.l)

\* lighten(amount): lightness plus amount/100, clamped; amount is a rational.
lighten(c, amount) ==
  LET hsl == toHsl(c)
      l   == Clamp01(<<hsl.l[1] * 100 * amount[2] + amount[1] * hsl.l[2],
                       hsl.l[2] * 100 * amount[2]>>)
  IN  ColorOfHsl(hsl.h, hsl.s, l)

(***************************************************************************)
(* App.tsx                                                                 *)
(***************************************************************************)
hueNames == <<"Red", "Orange", "Yellow", "Green", "Blue", "Purple", "Pink">>

\* Math.floor((h % 360) / 60)
HueIndex(h) == JsRem(h, 360)[1] \div (60 * h[2])

\* String.prototype.trim on a string kept as its pieces: the empty pieces
\* and the blanks at both ends go.
RECURSIVE TrimLeft(_)
TrimLeft(t) ==
  IF t = <<>> THEN t
  ELSE IF Head(t) \in {"", " "} THEN TrimLeft(Tail(t))
  ELSE t

RECURSIVE TrimRight(_)
TrimRight(t) ==
  IF t = <<>> THEN t
  ELSE IF t[Len(t)] \in {"", " "} THEN TrimRight(SubSeq(t, 1, Len(t) - 1))
  ELSE t

Trim(t) == TrimRight(TrimLeft(t))

\* generateColorName calling a saturation of exactly 0.5 vibrant.
generateColorNameFromHalf(color) ==
  LET hsl == toHsl(color)
      hueIndex == HueIndex(hsl.h)
      saturation == IF 2 * hsl.s[1] >= hsl.s[2] THEN "Vibrant" ELSE "Muted"
      lightness == IF 10 * hsl.l[1] > 7 * hsl.l[2] THEN "Light"
                   ELSE IF 10 * hsl.l[1] < 3 * hsl.l[2] THEN "Dark" ELSE ""
      hue == IF hueIndex \in 0..(Len(hueNames) - 1)
             THEN hueNames[hueIndex + 1] ELSE "undefined"
  IN  Trim(<<lightness, " ", saturation, " ", hue>>)

\* A name is the sequence of the template's pieces.
generateColorName(color) ==
  LET hsl == toHsl(color)
      hueIndex == HueIndex(hsl.h)
      saturation == IF 2 * hsl.s[1] > hsl.s[2] THEN "Vibrant" ELSE "Muted"
      lightness == IF 10 * hsl.l[1] > 7 * hsl.l[2] THEN "Light"
                   ELSE IF 10 * hsl.l[1] < 3 * hsl.l[2] THEN "Dark" ELSE ""
      hue == IF hueIndex \in 0..(Len(hueNames) - 1)
             THEN hueNames[hueIndex + 1] ELSE "undefined"
  IN  Trim(<<lightness, " ", saturation, " ", hue>>)

\* The ColorData record built at lines 39-46, 67-74 and 84-91.
ColorData(color) ==
  [hex |-> toHexString(color), name |-> generateColorName(color),
   rgb |-> toRgbString(color), hsl |-> toHslString(color),
   hsv |-> toHsvString(color), cmyk |-> toCmykString(color)]

\* AdjustHsl without the clamp of the saturation (line 64).
AdjustHslUnclamped(hsl, adj) ==
  [h |-> JsRem(<<hsl.h[1] + adj.hue * hsl.h[2], hsl.h[2]>>, 360),
   s |-> <<100 * hsl.s[1] + adj.saturation * hsl.s[2], 100 * hsl.s[2]>>,
   l |-> Clamp01(<<100 * hsl.l[1] + adj.brightness * hsl.l[2], 100 * hsl.l[2]>>)]

\* AdjustHsl with the hue rounded to whole degrees.
AdjustHslWholeDegrees(hsl, adj) ==
  [h |-> JsRem(<<RoundQ(hsl.h[1], hsl.h[2]) + adj.hue, 1>>, 360),
   s |-> Clamp01(<<100 * hsl.s[1] + adj.saturation * hsl.s[2], 100 * hsl.s[2]>>),
   l |-> Clamp01(<<100 * hsl.l[1] + adj.brightness * hsl.l[2], 100 * hsl.l[2]>>)]

\* Lines 62-65: the HSL triple adjustPalette hands to the constructor.
AdjustHsl(hsl, adj) ==
  [h |-> JsRem(<<hsl.h[1] + adj.hue * hsl.h[2], hsl.h[2]>>, 360),
   s |-> Clamp01(<<100 * hsl.s[1] + adj.saturation * hsl.s[2], 100 * hsl.s[2]>>),
   l |-> Clamp01(<<100 * hsl.l[1] + adj.brightness * hsl.l[2], 100 * hsl.l[2]>>)]

\* AdjustColor whose colour reads back the hue of line 63 as it stands,
\* not as the constructor wrapped it.
AdjustColorUnwrappedHue(hex, adj) ==
  LET tiny == ColorOfString(hex)
      hsl  == AdjustHsl(toHsl(tiny), adj)
  IN  [ColorOfHsl(hsl.h, hsl.s, hsl.l) EXCEPT !.h = hsl.h]

\* Lines 61-66: the colour adjustPalette makes of one entry.
AdjustColor(hex, adj) ==
  LET tiny == ColorOfString(hex)
      hsl  == AdjustHsl(toHsl(tiny), adj)
  IN  ColorOfHsl(hsl.h, hsl.s, hsl.l)

\* InitialColor with the slots spread evenly around the wheel.
InitialColorEvenlySpaced(rnd, i) ==
  LET base == ColorOfHsl(<<360 * rnd[1], rnd[2]>>, <<7, 10>>, <<5, 10>>)
  IN  spin(clone(base, FALSE), i * (360 \div PaletteSize))

\* Lines 33-47: the colour of slot i (from 0) for the random number rnd, a
\* rational in [0, 1).
InitialColor(rnd, i) ==
  LET base == ColorOfHsl(<<360 * rnd[1], rnd[2]>>, <<7, 10>>, <<5, 10>>)
  IN  spin(clone(base, FALSE), i * SpinStep)

\* getShades lightening by factor * 100.
getShadesDoubled(hex) ==
  LET base == ColorOfString(hex)
  IN  [k \in 1..ShadeCount |->
         LET i == k - 1
             factor == <<(i - 2) * 2, 10>>
         IN  toHexString(lighten(clone(base, TRUE), <<factor[1] * 100, factor[2]>>))]

\* Lines 109-120: getShades.
getShades(hex) ==
  LET base == ColorOfString(hex)
  IN  [k \in 1..ShadeCount |->
         LET i == k - 1
             factor == <<(i - 2) * 2, 10>>
         IN  toHexString(lighten(clone(base, TRUE), <<factor[1] * 50, factor[2]>>))]

(***************************************************************************)
(* Bounds and the inputs drawn at each step                                *)
(***************************************************************************)
\* Events handled in one run.
MaxSteps == 3

\* Values of Math.random() (line 34), rationals in [0, 1): hues 0, 51.43,
\* 300 and 359.85 degrees.
RandomNumbers == {<<0, 1>>, <<1, 7>>, <<2399, 2400>>}

\* Values the three range inputs report (min/max at lines 169-170, 186-187,
\* 203-204).
HueInputs == {-180, 0, 30}

SaturationInputs == {-20, 0, 100}

BrightnessInputs == {-100, 0, 20}

\* Colours SketchPicker reports (newColor.hex): #ff0000, #808080, #1a6b3c.
PickerColors == {<<15, 15, 0, 0, 0, 0>>, <<8, 0, 8, 0, 8, 0>>,
                 <<1, 10, 6, 11, 3, 12>>}

\* Strings a caller of the handlers can pass besides those: a three-digit
\* hex, a string with a character that is no hex digit, and one of a length
\* no colour format has.
CallerStrings == {<<0, 15, 8>>, <<1, 2, NonHexChar, 4, 5, 6>>, <<10, 11>>}

\* Names typed into the tooltip's input.
TypedNames == {<<"Sky">>}

VARIABLES
  palette,        \* useState<ColorData[]>, line 33
  adjustments,    \* useState({hue, saturation, brightness}), line 50
  selectedColor,  \* useState<number | null>, line 55 (an index from 1, or NULL)
  showPicker,     \* useState<number | null>, line 56
  origin,         \* history: per entry, the colour object of its last colour
                  \* write, the hex of its last generation or replacement,
                  \* the adjustments applied since, and whether it was renamed
  last,           \* history: the last handler call
  err,            \* the error the last handler call raised ("none" if none)
  steps           \* events handled

vars == <<palette, adjustments, selectedColor, showPicker, origin, last, err, steps>>

Slots == 1..PaletteSize

ZeroAdjustment == [hue |-> 0, saturation |-> 0, brightness |-> 0]

NoCall == [op |-> "init", index |-> NULL, input |-> <<>>,
           vec |-> ZeroAdjustment, prev |-> <<>>, hsl |-> <<>>, out |-> <<>>]

\* Lines 33-48: the useState initializer.
InitialPalette(rnd) == [k \in Slots |-> ColorData(InitialColor(rnd, k - 1))]

Init ==
  \E rnd \in RandomNumbers :
    /\ palette = InitialPalette(rnd)
    /\ adjustments = ZeroAdjustment
    /\ selectedColor = NULL
    /\ showPicker = NULL
    /\ origin = [k \in Slots |->
                   [color |-> InitialColor(rnd, k - 1),
                    hex0 |-> InitialPalette(rnd)[k].hex,
                    applied |-> <<>>, renamed |-> FALSE]]
    /\ last = [NoCall EXCEPT !.input = rnd]
    /\ err = "none"
    /\ steps = 0

\* adjustPalette computing from the colour each entry was generated or
\* replaced with instead of the stored one.
adjustPaletteFromOrigin(prev, adj) ==
  [k \in DOMAIN prev |-> ColorData(AdjustColor(origin[k].hex0, adj))]

\* Lines 58-77: adjustPalette maps every entry of the current palette (the
\* functional update's prev) with the adjustments it closed over.
adjustPalette(prev, adj) == [k \in Slots |-> ColorData(AdjustColor(prev[k].hex, adj))]

\* Line 77: useCallback([adjustments]) renews adjustPalette at each render,
\* so the one an event handler calls closed over the adjustments of the
\* render before the event.
ClosedOverAdjustments == adjustments

\* What the history variables record of an adjustPalette call.
AdjustHistory(adj) ==
  /\ origin' = [k \in Slots |->
                  [origin[k] EXCEPT
                     !.color = AdjustColor(palette[k].hex, adj),
                     !.applied = Append(@, adj),
                     !.renamed = FALSE]]
  /\ last' = [op |-> "adjustPalette", index |-> NULL, input |-> <<>>,
              vec |-> adj, prev |-> palette,
              hsl |-> [k \in Slots |->
                         AdjustHsl(toHsl(ColorOfString(palette[k].hex)), adj)],
              out |-> <<>>]
  /\ err' = "none"

\* Lines 172-178, 189-195, 206-212: a slider's onChange queues the new
\* adjustments and calls adjustPalette.
SliderChange(field, v) ==
  /\ steps < MaxSteps
  /\ v # adjustments[field]
  /\ adjustments' = [adjustments EXCEPT ![field] = v]
  /\ palette' = adjustPalette(palette, ClosedOverAdjustments)
  /\ AdjustHistory(ClosedOverAdjustments)
  /\ steps' = steps + 1
  /\ UNCHANGED <<selectedColor, showPicker>>

HueSlider == \E v \in HueInputs : SliderChange("hue", v)

SaturationSlider == \E v \in SaturationInputs : SliderChange("saturation", v)

BrightnessSlider == \E v \in BrightnessInputs : SliderChange("brightness", v)

\* Lines 233-236: a swatch's onClick.
SwatchClick ==
  \E index \in Slots :
    /\ steps < MaxSteps
    /\ selectedColor' = index
    /\ showPicker' = IF showPicker = index THEN NULL ELSE index
    /\ last' = [NoCall EXCEPT !.op = "click", !.index = index, !.prev = palette]
    /\ err' = "none"
    /\ steps' = steps + 1
    /\ UNCHANGED <<palette, adjustments, origin>>

\* ReplacedEntry with the hsl field written by toHsvString.
ReplacedEntryHsvForHsl(newColor) ==
  [ColorData(ColorOfString(newColor)) EXCEPT
     !.hsl = toHsvString(ColorOfString(newColor))]

\* Lines 83-91: the entry handleColorChange makes of a colour string.
ReplacedEntry(newColor) == ColorData(ColorOfString(newColor))

\* Lines 79-94: handleColorChange.
handleColorChange(index, newColor) ==
  /\ palette' = [k \in Slots |->
                   IF k # index THEN palette[k] ELSE ReplacedEntry(newColor)]
  /\ origin' = [origin EXCEPT ![index] =
                  [color |-> ColorOfString(newColor),
                   hex0 |-> toHexString(ColorOfString(newColor)),
                   applied |-> <<>>, renamed |-> FALSE]]
  /\ last' = [NoCall EXCEPT !.op = "handleColorChange", !.index = index,
                            !.input = newColor, !.prev = palette]
  /\ err' = "none"

\* Lines 242-250: the picker of the swatch it is shown on reports a colour.
PickerChange ==
  \E newColor \in PickerColors :
    /\ steps < MaxSteps
    /\ showPicker # NULL
    /\ handleColorChange(showPicker, newColor)
    /\ steps' = steps + 1
    /\ UNCHANGED <<adjustments, selectedColor, showPicker>>

\* Line 98: the entry handleNameChange makes.
RenamedEntry(color, name) == [color EXCEPT !.name = name]

\* Lines 96-100 and 136-141: the tooltip's input calls handleNameChange.
NameInput ==
  \E index \in Slots, name \in TypedNames :
    /\ steps < MaxSteps
    /\ palette' = [k \in Slots |->
                     IF k = index THEN RenamedEntry(palette[k], name)
                     ELSE palette[k]]
    /\ origin' = [origin EXCEPT ![index].renamed = TRUE]
    /\ last' = [NoCall EXCEPT !.op = "handleNameChange", !.index = index,
                              !.input = name, !.prev = palette]
    /\ err' = "none"
    /\ steps' = steps + 1
    /\ UNCHANGED <<adjustments, selectedColor, showPicker>>

\* Line 260: what the shades panel shows at this render.
Shades == IF selectedColor = NULL THEN <<>> ELSE getShades(palette[selectedColor].hex)

Next ==
  \/ HueSlider
  \/ SaturationSlider
  \/ BrightnessSlider
  \/ SwatchClick
  \/ PickerChange
  \/ NameInput

Spec == Init /\ [][Next]_vars

\* The handlers called as functions, with any string a caller can pass.
CallHandleColorChange ==
  \E index \in Slots, str \in CallerStrings :
    /\ steps < MaxSteps
    /\ handleColorChange(index, str)
    /\ steps' = steps + 1
    /\ UNCHANGED <<adjustments, selectedColor, showPicker>>

CallGetShades ==
  \E str \in CallerStrings \cup PickerColors :
    /\ steps < MaxSteps
    /\ last' = [NoCall EXCEPT !.op = "getShades", !.input = str,
                              !.prev = palette, !.out = getShades(str)]
    /\ err' = "none"
    /\ steps' = steps + 1
    /\ UNCHANGED <<palette, adjustments, selectedColor, showPicker, origin>>

NextCalls ==
  \/ Next
  \/ CallHandleColorChange
  \/ CallGetShades

SpecCalls == Init /\ [][NextCalls]_vars

(***************************************************************************)
(* Vocabulary of the properties                                            *)
(***************************************************************************)
RECURSIVE Gcd(_, _)
Gcd(a, b) == IF b = 0 THEN a ELSE Gcd(b, a % b)

\* A rational in lowest terms.
Lowest(q) ==
  LET g == Gcd(IF q[1] < 0 THEN 0 - q[1] ELSE q[1], q[2])
  IN  <<q[1] \div g, q[2] \div g>>

\* Equality and order of rationals.
RatEq(p, q) == Lowest(p) = Lowest(q)

RatLe(p, q) == Lowest(p)[1] * Lowest(q)[2] <= Lowest(q)[1] * Lowest(p)[2]

InUnit(q) == 0 <= q[1] /\ q[1] <= q[2]

\* A hue in [0, 360).
HueInRange(h) == 0 <= h[1] /\ h[1] < 360 * h[2]

\* The hues g and h are within tol degrees of each other around the circle.
HueNear(g, h, tol) ==
  LET full == 360 * g[2] * h[2]
      diff == (g[1] * h[2] - h[1] * g[2]) % full
  IN  diff <= tol * g[2] * h[2] \/ full - diff <= tol * g[2] * h[2]

\* The rationals p and q of [0, 1] are within t hundredths of a percent of
\* each other.
Near4(p, q, t) == Perc4(p) - Perc4(q) <= t /\ Perc4(q) - Perc4(p) <= t

\* The HSL a stored hex string reads back as.
HslOfHex(hex) == toHsl(ColorOfString(hex))

IsAdjust == last.op = "adjustPalette"

\* The last call wrote colours (the other calls leave every hex as it was).
ColourWritten == last.op \in {"init", "adjustPalette", "handleColorChange"}

(***************************************************************************)
(* C1.  After a bulk adjustment every entry's HSL is in range: the         *)
(* saturation and the lightness adjustPalette computes are the sums        *)
(* s + saturation/100 and l + brightness/100 clamped to [0, 1] (exactly 0  *)
(* or 1 when the sum leaves the interval), and the hue of the colour it    *)
(* stores is (h + hue) mod 360, in [0, 360).                               *)
(***************************************************************************)
ClampedSum(new, old, delta) ==
  LET sum == <<100 * old[1] + delta * old[2], 100 * old[2]>>
  IN  /\ InUnit(new)
      /\ sum[1] <= 0 => new[1] = 0
      /\ sum[1] >= sum[2] => new[1] = new[2]
      /\ (0 < sum[1] /\ sum[1] < sum[2]) => RatEq(new, sum)

C1_AdjustedHslInRange ==
  IsAdjust =>
    \A k \in Slots :
      LET old == HslOfHex(last.prev[k].hex)
          new == last.hsl[k]
          col == origin[k].color
      IN  /\ ClampedSum(new.s, old.s, last.vec.saturation)
          /\ ClampedSum(new.l, old.l, last.vec.brightness)
          /\ HueInRange(col.h) /\ InUnit(col.s) /\ InUnit(col.l)
          /\ col.s[1] > 0 =>
               HueNear(col.h, <<old.h[1] + last.vec.hue * old.h[2], old.h[2]>>, 0)
          /\ palette[k].hsl[1] \in 0..360
          /\ palette[k].hsl[2] \in 0..100
          /\ palette[k].hsl[3] \in 0..100

\* An adjustment whose saturation sum exceeds 1 and whose hue sum is negative
\* has been applied.
C1_Witness ==
  /\ IsAdjust
  /\ \E k \in Slots :
       LET old == HslOfHex(last.prev[k].hex)
       IN  /\ 100 * old.s[1] + last.vec.saturation * old.s[2] > 100 * old.s[2]
           /\ last.hsl[k].h[1] < 0

(***************************************************************************)
(* C2.  Bulk adjustment is cumulative: every entry's stored hex is the     *)
(* result of applying, one after the other and each to the hex the         *)
(* previous one stored, all the adjustments made since the entry was       *)
(* generated or replaced (stated of the states a colour write leads to:    *)
(* no other call changes a hex, C4).  Hue-only adjustments of a vivid      *)
(* colour add up (to within a degree per application, the resolution of a  *)
(* hex string), and applying the same 30-degree adjustment twice moves the *)
(* hue by 60.                                                              *)
(***************************************************************************)
RECURSIVE FoldAdjust(_, _)
FoldAdjust(hex, vecs) ==
  IF vecs = <<>> THEN hex
  ELSE FoldAdjust(toHexString(AdjustColor(hex, Head(vecs))), Tail(vecs))

RECURSIVE SumHue(_)
SumHue(vecs) == IF vecs = <<>> THEN 0 ELSE Head(vecs).hue + SumHue(Tail(vecs))

HueOnly(vecs) ==
  \A j \in 1..Len(vecs) : vecs[j].saturation = 0 /\ vecs[j].brightness = 0

Vivid(hsl) ==
  /\ 2 * hsl.s[1] >= hsl.s[2]
  /\ 4 * hsl.l[1] >= hsl.l[2]
  /\ 4 * hsl.l[1] <= 3 * hsl.l[2]

ThirtyDegrees == [hue |-> 30, saturation |-> 0, brightness |-> 0]

C2_Cumulative ==
  ColourWritten => \A k \in Slots :
    LET hex0 == origin[k].hex0
        vecs == origin[k].applied
        h0   == HslOfHex(hex0)
        cur  == HslOfHex(palette[k].hex)
        once == toHexString(AdjustColor(palette[k].hex, ThirtyDegrees))
        twice == toHexString(AdjustColor(once, ThirtyDegrees))
    IN  /\ palette[k].hex = FoldAdjust(hex0, vecs)
        /\ (HueOnly(vecs) /\ Vivid(h0)) =>
             HueNear(cur.h, <<h0.h[1] + SumHue(vecs) * h0.h[2], h0.h[2]>>,
                     Len(vecs))
        /\ Vivid(cur) =>
             /\ HueNear(HslOfHex(twice).h, <<cur.h[1] + 60 * cur.h[2], cur.h[2]>>, 2)
             /\ twice # once

\* Two adjustments other than zero have been applied to an entry, and its hex
\* is not what the last of them alone makes of the original.
C2_Witness ==
  \E k \in Slots :
    LET vecs == origin[k].applied
    IN  /\ Len(vecs) >= 3
        /\ vecs[Len(vecs)] # ZeroAdjustment
        /\ vecs[Len(vecs) - 1] # ZeroAdjustment
        /\ palette[k].hex # toHexString(AdjustColor(origin[k].hex0, vecs[Len(vecs)]))

(***************************************************************************)
(* C7.  The zero adjustment changes no stored colour: hex -> HSL -> hex    *)
(* gives the same hex, for every entry a zero adjustment was applied to,   *)
(* for every stored hex if it were applied again, and for every hex of a   *)
(* sample of the colour cube.                                              *)
(***************************************************************************)
SampleChannels == {0, 1, 2, 51, 127, 128, 200, 254, 255}

HexOfRgb(r, g, b) == toHexString(ColorOfRgb(r, g, b))

C7_ZeroAdjustmentNoOp ==
  /\ (IsAdjust /\ last.vec = ZeroAdjustment) =>
       \A k \in Slots : palette[k].hex = last.prev[k].hex
  /\ ColourWritten => \A k \in Slots :
       toHexString(AdjustColor(palette[k].hex, ZeroAdjustment)) = palette[k].hex
  /\ steps = 0 =>
       \A r \in SampleChannels, g \in SampleChannels, b \in SampleChannels :
         toHexString(AdjustColor(HexOfRgb(r, g, b), ZeroAdjustment)) = HexOfRgb(r, g, b)

\* The zero adjustment was applied to an entry whose hue is no whole number of
\* degrees and whose saturation and lightness are no whole hundredths of a
\* percent.
C7_Witness ==
  /\ IsAdjust
  /\ last.vec = ZeroAdjustment
  /\ \E k \in Slots :
       LET old == HslOfHex(last.prev[k].hex)
       IN  /\ Lowest(old.h)[2] > 1
           /\ (10000 * old.s[1]) % old.s[2] # 0
           /\ (10000 * old.l[1]) % old.l[2] # 0
           /\ palette[k].hex = last.prev[k].hex

(***************************************************************************)
(* C3.  A colour string that does not parse is rejected: handleColorChange *)
(* and getShades called with one raise InvalidColorFormat and leave the    *)
(* palette as it was; the string is not stored or shaded as black.         *)
(***************************************************************************)
Unparseable(str) == ~ColorOfString(str).ok

Black == <<0, 0, 0, 0, 0, 0>>

C3_UnparseableRejected ==
  /\ (last.op = "handleColorChange" /\ Unparseable(last.input)) =>
       /\ err = "InvalidColorFormat"
       /\ palette = last.prev
       /\ palette[last.index].hex # Black
  /\ (last.op = "getShades" /\ Unparseable(last.input)) =>
       /\ err = "InvalidColorFormat"
       /\ last.out = <<>>

(***************************************************************************)
(* C4.  In every state each entry's hex, rgb, hsl, hsv and cmyk are the    *)
(* five views of one colour, the one of the entry's last colour write; the *)
(* rgb string shows the channels the hex string spells; the name is the    *)
(* generated one unless the entry was renamed since; a rename changes      *)
(* nothing but one name, and a colour replacement nothing but one entry.   *)
(***************************************************************************)
ColorFields(e) == <<e.hex, e.rgb, e.hsl, e.hsv, e.cmyk>>

C4_DerivedStringsConsistent ==
  /\ \A k \in Slots :
       LET e == palette[k]
           c == origin[k].color
       IN  /\ ColorFields(e) = <<toHexString(c), toRgbString(c), toHslString(c),
                                 toHsvString(c), toCmykString(c)>>
           /\ e.rgb = toRgbString(ColorOfString(e.hex))
           /\ ~origin[k].renamed => e.name = generateColorName(c)
  /\ last.op = "handleNameChange" =>
       \A k \in Slots :
         /\ ColorFields(palette[k]) = ColorFields(last.prev[k])
         /\ k # last.index => palette[k] = last.prev[k]
  /\ last.op = "handleColorChange" =>
       \A k \in Slots \ {last.index} : palette[k] = last.prev[k]

\* An entry a bulk adjustment other than zero has recoloured is renamed.
C4_Witness ==
  /\ last.op = "handleNameChange"
  /\ palette[last.index].name # last.prev[last.index].name
  /\ origin[last.index].renamed
  /\ origin[last.index].applied # <<>>
  /\ origin[last.index].applied[Len(origin[last.index].applied)] # ZeroAdjustment
  /\ palette[last.index].hex # origin[last.index].hex0

(***************************************************************************)
(* C5.  The five shades are the base colour lightened by -20, -10, 0, +10  *)
(* and +20 on the 0-100 lightness scale, in that order, each lightness     *)
(* clamped to [0, 100]; the middle shade is the base colour.               *)
(* (As first stated: by -40, -20, 0, +20 and +40.)                         *)
(***************************************************************************)
ShadesLightenBy(shades, offsets) ==
  LET base == HslOfHex(palette[selectedColor].hex)
  IN  \A i \in 1..ShadeCount :
        LET l == Clamp01(<<100 * base.l[1] + offsets[i] * base.l[2], 100 * base.l[2]>>)
        IN  /\ shades[i] = toHexString(ColorOfHsl(base.h, base.s, l))
            /\ Near4(HslOfHex(shades[i]).l, l, 25)

C5_ShadeOffsetsOfTen ==
  selectedColor # NULL =>
    LET shades == Shades
    IN  /\ Len(shades) = 5
        /\ ShadesLightenBy(shades, <<-20, -10, 0, 10, 20>>)
        /\ shades[3] = palette[selectedColor].hex

C5_ShadeOffsetsOfTwenty ==
  selectedColor # NULL => ShadesLightenBy(Shades, <<-40, -20, 0, 20, 40>>)

\* The shades of a selected colour none of which is clamped.
C5_Witness ==
  /\ selectedColor # NULL
  /\ \A i \in 1..4 :
       Perc4(HslOfHex(Shades[i + 1]).l) - Perc4(HslOfHex(Shades[i]).l) \in 900..1100

(***************************************************************************)
(* C6.  The initial palette: for the base hue b = 360 * Math.random(),     *)
(* slot i (from 0) holds a colour of hue (b + 30 i) mod 360, saturation    *)
(* 0.7 and lightness 0.5 -- the colour object to the whole degree          *)
(* (clone() passes the base through its hsl string), the stored hex to     *)
(* within a degree and a hundredth.  The step is 30 degrees whatever the   *)
(* number of slots, so the five hues span 120 degrees.                     *)
(***************************************************************************)
C6_InitialPalette ==
  last.op = "init" =>
    LET rnd == last.input
        b   == <<360 * rnd[1], rnd[2]>>
    IN  /\ \A k \in Slots :
             LET c == origin[k].color
                 stored == HslOfHex(palette[k].hex)
             IN  /\ HueInRange(c.h)
                 /\ HueNear(c.h, <<RoundQ(b[1], b[2]) + 30 * (k - 1), 1>>, 0)
                 /\ c.s = <<7000, 10000>> /\ c.l = <<5000, 10000>>
                 /\ HueNear(stored.h, <<b[1] + 30 * (k - 1) * b[2], b[2]>>, 1)
                 /\ Near4(stored.s, <<7, 10>>, 100)
                 /\ Near4(stored.l, <<1, 2>>, 100)
        /\ HueNear(origin[PaletteSize].color.h,
                   <<origin[1].color.h[1] + 120 * origin[1].color.h[2],
                     origin[1].color.h[2]>>, 0)
        /\ ~HueNear(origin[2].color.h,
                    <<origin[1].color.h[1] + 72 * origin[1].color.h[2],
                      origin[1].color.h[2]>>, 5)

\* An initial palette whose base hue is no whole number of degrees and whose
\* hues wrap past 360.
C6_Witness ==
  /\ last.op = "init"
  /\ Lowest(<<360 * last.input[1], last.input[2]>>)[2] > 1
  /\ \E k \in Slots :
       360 * last.input[1] + 30 * (k - 1) * last.input[2] >= 360 * last.input[2]
  /\ \A k \in Slots : palette[k].hsl[2] = 70 /\ palette[k].hsl[3] = 50

(***************************************************************************)
(* C8.  generateColorName is the function of (h, s, l) the specification   *)
(* tabulates: the hue label by sectors of 60 degrees starting at Red, the  *)
(* saturation label Vibrant above 0.5 and Muted otherwise, the lightness   *)
(* label Light above 0.7, Dark below 0.3 and none otherwise, joined by     *)
(* blanks with none at the ends.                                           *)
(***************************************************************************)
ExpectedName(hsl) ==
  LET hue == CASE hsl.h[1] < 60 * hsl.h[2] -> "Red"
               [] hsl.h[1] >= 60 * hsl.h[2] /\ hsl.h[1] < 120 * hsl.h[2] -> "Orange"
               [] hsl.h[1] >= 120 * hsl.h[2] /\ hsl.h[1] < 180 * hsl.h[2] -> "Yellow"
               [] hsl.h[1] >= 180 * hsl.h[2] /\ hsl.h[1] < 240 * hsl.h[2] -> "Green"
               [] hsl.h[1] >= 240 * hsl.h[2] /\ hsl.h[1] < 300 * hsl.h[2] -> "Blue"
               [] hsl.h[1] >= 300 * hsl.h[2] -> "Purple"
      sat == IF RatLe(hsl.s, <<1, 2>>) THEN "Muted" ELSE "Vibrant"
  IN  IF ~RatLe(hsl.l, <<7, 10>>) THEN <<"Light", " ", sat, " ", hue>>
      ELSE IF ~RatLe(<<3, 10>>, hsl.l) THEN <<"Dark", " ", sat, " ", hue>>
      ELSE <<sat, " ", hue>>

NameHues == {<<0, 1>>, <<599, 10>>, <<60, 1>>, <<120, 1>>, <<180, 1>>,
             <<240, 1>>, <<2999, 10>>, <<300, 1>>, <<3599, 10>>}

NameSaturations == {<<0, 1>>, <<1, 2>>, <<51, 100>>, <<7, 10>>, <<1, 1>>}

NameLightnesses == {<<0, 1>>, <<29, 100>>, <<3, 10>>, <<1, 2>>, <<7, 10>>,
                    <<71, 100>>, <<1, 1>>}

C8_NameIsFunctionOfHsl ==
  /\ \A k \in Slots :
       ~origin[k].renamed => palette[k].name = ExpectedName(toHsl(origin[k].color))
  /\ steps = 0 =>
       /\ \A h \in NameHues, s \in NameSaturations, l \in NameLightnesses :
            generateColorName([h |-> h, s |-> s, l |-> l])
              = ExpectedName([h |-> h, s |-> s, l |-> l])
       /\ generateColorName([h |-> <<0, 1>>, s |-> <<7, 10>>, l |-> <<1, 2>>])
            = <<"Vibrant", " ", "Red">>
       /\ generateColorName([h |-> <<180, 1>>, s |-> <<7, 10>>, l |-> <<1, 2>>])
            = <<"Vibrant", " ", "Green">>

\* An adjustment has renamed an entry from a vibrant colour to a dark muted
\* one.
C8_Witness ==
  /\ IsAdjust
  /\ \E k \in Slots :
       /\ palette[k].name = <<"Dark", " ", "Muted", " ", "Red">>
       /\ last.prev[k].name[1] = "Vibrant"
       /\ ~origin[k].renamed

(***************************************************************************)
(* C9.  The hue index generateColorName computes is in 0..5 for every      *)
(* colour the program names, also when line 63 leaves a negative hue: no   *)
(* generated name ends in Pink or in undefined.                            *)
(***************************************************************************)
C9_HueIndexInRange ==
  \A k \in Slots :
    /\ HueIndex(toHsl(origin[k].color).h) \in 0..5
    /\ ~origin[k].renamed =>
         /\ palette[k].name # <<>>
         /\ palette[k].name[Len(palette[k].name)]
              = hueNames[HueIndex(toHsl(origin[k].color).h) + 1]
         /\ palette[k].name[Len(palette[k].name)] \notin {"Pink", "undefined"}

\* An adjustment whose hue sum at line 63 is negative has named an entry.
C9_Witness ==
  /\ IsAdjust
  /\ \E k \in Slots :
       /\ last.hsl[k].h[1] < 0
       /\ palette[k].name[Len(palette[k].name)] \in {"Blue", "Purple", "Green"}

(***************************************************************************)
(* C10.  The adjustment a slider event triggers is computed with the       *)
(* adjustments as the event updates them: after the event the palette is   *)
(* the previous one adjusted by the stored adjustments.                    *)
(***************************************************************************)
C10_AdjustsWithUpdatedVector ==
  IsAdjust => palette = adjustPalette(last.prev, adjustments)

====
